---- MODULE Spec2Model ----
(***************************************************************************)
(* A model of the stroke-segmentation repository: the training loop of     *)
(* brain_stroke_segmentation/train.py (early stopping, checkpointing),     *)
(* the dataset assembly of data_loader.py, the mask extraction of utils.py *)
(* and dataset.py, StrokeInference of inference.py, the train command of   *)
(* commands.py, and the predict and download_mask endpoints of             *)
(* web/backend/api/views.py.                                               *)
(* Each subsystem has its own variables and its own specification.         *)
(***************************************************************************)
EXTENDS Integers, Sequences, FiniteSets, TLC

VARIABLES
    \* ---- train_model (train.py)
    pc,               \* position in train_model: "loop", "load", "returned", "raised"
    epochs,           \* parameter epochs
    patience,         \* parameter patience
    epoch,            \* number of loop iterations completed
    best_dice,        \* train.py:213
    patience_counter, \* train.py:214
    val_history,      \* history["val_dice"]
    model,            \* the weights the model object carries
    ckpt_file,        \* content of checkpoint_dir/best_model.pth
    saved_epochs,     \* the epochs (1-based) at which torch.save ran
    \* ---- the predict endpoint (web/backend/api/views.py)
    model_instance,   \* views.py:26 _model_instance: "none" or "loaded"
    predictions,      \* the Prediction table, oldest first
    tmp_files,        \* temporary files left on disk
    nreq,             \* requests handled so far
    request,          \* the request handled last
    response,         \* the response to it
    steps,            \* what handling it did, in order
    download,         \* the last download_mask request and the response to it
    \* ---- load_and_preprocess_data, create_datasets (data_loader.py)
    fs,               \* the paths that exist on disk
    data_pc,          \* "start", "loaded" (load_and_preprocess_data returned),
                      \* "created", "no_images" or "split_failed" (create_datasets)
    images_paths,     \* data_loader.py:24
    masks_paths,      \* data_loader.py:25
    probed,           \* the paths whose existence the call tested
    scanned,          \* the directories the call listed (glob, iterdir)
    test_size,        \* create_datasets' test_size, in percent
    split_calls,      \* calls of train_test_split
    train_dataset,    \* the StrokeDataset built for training, if any
    val_dataset,      \* the StrokeDataset built for validation, if any
    \* ---- extract_red_mask_from_path (utils.py)
    mask_pc,          \* "start", "done"
    mask_path,        \* what the path argument is: "None", "missing" (no such
                      \* file), "unreadable" (cv2.imread returns None), "overlay"
    overlay,          \* the image cv2.imread returns for an "overlay", in HSV
    width,            \* argument width
    height,           \* argument height
    mask_result,      \* the value returned
    \* ---- StrokeDataset (dataset.py)
    ds_pc,            \* "new" (before the constructor), "built"
    given_images,     \* the image_paths argument of the constructor
    given_masks,      \* the mask_paths argument of the constructor
    img_height,       \* argument img_height
    img_width,        \* argument img_width
    transforms,       \* whether a transform was given
    ds,               \* the StrokeDataset object
    sample,           \* the result of the last dataset[idx]
    \* ---- StrokeInference (inference.py)
    inf_pc,           \* "start", "predict_returned", "predict_raised",
                      \* "batch_returned"
    inf_model,        \* self.model: the probability map it gives for each scan
    inf_threshold,    \* argument threshold
    inf_path,         \* argument image_path of predict
    inf_paths,        \* argument image_paths of predict_batch
    inf_result,       \* the value returned
    inf_raised,       \* the exception that left the call, "" if none
    inf_log,          \* what the call did, in order: <<position in the list, step>>
    \* ---- the train command (commands.py)
    cmd_pc,           \* "start", "done"
    cmd_cfg,          \* the composed configuration: cfg.production.convert_onnx
    cmd_env,          \* what dvc pull, train_model and the ONNX export will do
    cmd_files,        \* which of the command's files exist
    cmd_steps,        \* the steps of train that ran, in order
    cmd_raised        \* the exception that ended the command, "" if none

trainVars == <<pc, epochs, patience, epoch, best_dice, patience_counter,
               val_history, model, ckpt_file, saved_epochs>>

webVars == <<model_instance, predictions, tmp_files, nreq, request, response, steps,
             download>>

dataVars == <<fs, data_pc, images_paths, masks_paths, probed, scanned,
              test_size, split_calls, train_dataset, val_dataset>>

maskVars == <<mask_pc, mask_path, overlay, width, height, mask_result>>

dsVars == <<ds_pc, given_images, given_masks, img_height, img_width, transforms,
            ds, sample>>

infVars == <<inf_pc, inf_model, inf_threshold, inf_path, inf_paths, inf_result,
             inf_raised, inf_log>>

cmdVars == <<cmd_pc, cmd_cfg, cmd_env, cmd_files, cmd_steps, cmd_raised>>

vars == <<trainVars, webVars, dataVars, maskVars, dsVars, infVars, cmdVars>>

nonTrainVars == <<webVars, dataVars, maskVars, dsVars, infVars, cmdVars>>
nonWebVars == <<trainVars, dataVars, maskVars, dsVars, infVars, cmdVars>>
nonDataVars == <<trainVars, webVars, maskVars, dsVars, infVars, cmdVars>>
nonMaskVars == <<trainVars, webVars, dataVars, dsVars, infVars, cmdVars>>
nonDsVars == <<trainVars, webVars, dataVars, maskVars, infVars, cmdVars>>
nonInfVars == <<trainVars, webVars, dataVars, maskVars, dsVars, cmdVars>>
nonCmdVars == <<trainVars, webVars, dataVars, maskVars, dsVars, infVars>>

\* ------------------------------------------------------------------ bounds
MaxEpochs == 4
MaxPatience == 3
MaxDice == 3
MaxRequests == 3
MaxSource == 2
MaxTarget == 2
MaxItems == 2
MaxProb == 2
MaxBatch == 2

\* ------------------------------------------------------------ train_model

\* Validation Dice, scaled to integers. calculate_dice_score adds smooth = 1e-6
\* to numerator and denominator, so every batch score, and their mean, is > 0.
DiceValues == 1..MaxDice

InitWeights == <<"init">>
StaleWeights == <<"stale">>
EpochWeights(e) == <<"epoch", e>>
AbsentFile == <<"absent">>

ImprovedTieToo(val_dice, best) == val_dice >= best
\* train.py:298  if val_dice > best_dice
Improved(val_dice, best) == val_dice > best

EarlyStopOffByOne(counter, pat) == counter > pat
\* train.py:307  if patience_counter >= patience
EarlyStop(counter, pat) == counter >= pat

TrainInit ==
    /\ pc = "loop"
    /\ epochs \in 0..MaxEpochs
    /\ patience \in 0..MaxPatience
    /\ epoch = 0
    /\ best_dice = 0
    /\ patience_counter = 0
    /\ val_history = <<>>
    /\ model = InitWeights
    /\ ckpt_file \in {AbsentFile, StaleWeights}
    /\ saved_epochs = {}

\* train_model not running: a finished call of zero epochs.
TrainIdle ==
    /\ pc = "raised"
    /\ epochs = 0
    /\ patience = 0
    /\ epoch = 0
    /\ best_dice = 0
    /\ patience_counter = 0
    /\ val_history = <<>>
    /\ model = InitWeights
    /\ ckpt_file = AbsentFile
    /\ saved_epochs = {}

\* One iteration of `for epoch in range(epochs)`: train, validate, append to the
\* history, save on improvement, count otherwise, break on exhausted patience.
EpochStep ==
    /\ pc = "loop"
    /\ epoch < epochs
    /\ \E val_dice \in DiceValues :
        LET trained == EpochWeights(epoch + 1)
            better == Improved(val_dice, best_dice)
            counter == IF better THEN 0 ELSE patience_counter + 1
        IN  /\ model' = trained
            /\ val_history' = Append(val_history, val_dice)
            /\ best_dice' = IF better THEN val_dice ELSE best_dice
            /\ ckpt_file' = IF better THEN trained ELSE ckpt_file
            /\ saved_epochs' = IF better THEN saved_epochs \cup {epoch + 1}
                                         ELSE saved_epochs
            /\ patience_counter' = counter
            /\ pc' = IF EarlyStop(counter, patience) THEN "load" ELSE "loop"
    /\ epoch' = epoch + 1
    /\ UNCHANGED <<epochs, patience>>
    /\ UNCHANGED nonTrainVars

\* range(epochs) is exhausted: control leaves the loop.
LoopEnd ==
    /\ pc = "loop"
    /\ epoch >= epochs
    /\ pc' = "load"
    /\ UNCHANGED <<epochs, patience, epoch, best_dice, patience_counter,
                   val_history, model, ckpt_file, saved_epochs>>
    /\ UNCHANGED nonTrainVars

\* model.load_state_dict(torch.load(best_model_path)); return model, history
LoadBest ==
    /\ pc = "load"
    /\ IF ckpt_file = AbsentFile
          THEN /\ pc' = "raised"
               /\ model' = model
          ELSE /\ pc' = "returned"
               /\ model' = ckpt_file
    /\ UNCHANGED <<epochs, patience, epoch, best_dice, patience_counter,
                   val_history, ckpt_file, saved_epochs>>
    /\ UNCHANGED nonTrainVars

TrainNext == EpochStep \/ LoopEnd \/ LoadBest

\* ------------------------------------------------- PredictionViewSet.predict

NoRequest == [has_image |-> FALSE, image |-> "none", threshold |-> "absent"]
NoResponse == [status |-> 0, error |-> "", body |-> <<>>]
NoDownload == [pk |-> 0, status |-> 0, content |-> <<>>]

\* What a POST can carry: no file under "image", or a file whose bytes are a
\* decodable image, undecodable bytes or no bytes at all; and a threshold field
\* that is absent, a number, or text float() rejects.
Requests ==
    {[has_image |-> FALSE, image |-> "none", threshold |-> t] :
        t \in {"absent", "number", "text"}}
    \cup
    {[has_image |-> TRUE, image |-> i, threshold |-> t] :
        i \in {"valid", "garbage", "empty"}, t \in {"absent", "number", "text"}}

\* What the handler's surroundings may do: cv2.imdecode on an empty buffer
\* (None in old builds, cv2.error in current ones), StrokeInference's
\* constructor, model.predict and Prediction.objects.create.
Environments ==
    [decode_empty : {"none", "raise"}, load : {"ok", "raise"},
     predict : {"ok", "raise"}, create : {"ok", "raise"}]

WebInit ==
    /\ model_instance = "none"
    /\ predictions = <<>>
    /\ tmp_files = {}
    /\ nreq = 0
    /\ request = NoRequest
    /\ response = NoResponse
    /\ steps = <<>>
    /\ download = NoDownload

\* The outcome of one handling: the response, the steps taken, and the state
\* the handler leaves behind.
Outcome(status, error, body, st, inst, preds, tmps) ==
    [response |-> [status |-> status, error |-> error, body |-> body],
     steps |-> st, model_instance |-> inst, predictions |-> preds,
     tmp_files |-> tmps]

\* views.py:195-200  except Exception: 500
ServerError(st, inst, preds, tmps) ==
    Outcome(500, "Prediction failed", <<>>, st, inst, preds, tmps)

\* views.py:119-122  cv2.imdecode(np.frombuffer(image_data)): "image", "none"
\* (it returned None) or "raise"
Imdecode(image, env) ==
    CASE image = "valid" -> "image"
      [] image = "garbage" -> "none"
      [] OTHER -> env.decode_empty

\* cv2.imencode(".png", image), views.py:153-167: the PNG file of an image.
Imencode(image) == [format |-> "png", image |-> image]

\* What the bytes of a PNG file decode to.
PngImage(bytes) == bytes.image

\* base64.b64encode(...).decode("utf-8") and base64.b64decode.
B64Encode(bytes) == <<"base64", bytes>>

B64Decode(text) == text[2]

\* f"data:image/png;base64,{b64}", views.py:178-188
DataUrl(b64) == [prefix |-> "data:image/png;base64,", data |-> b64]

\* views.py:129-193  inference on a decoded image, the record and the response
RunInference(req, env, inst, preds, tmps, id) ==
    LET called == <<"get_model">>
    IN  IF inst = "none" /\ env.load = "raise"
           THEN ServerError(called, "none", preds, tmps)
           ELSE
        LET written == Append(called, "tmp_write")
            tmp == <<"tmp", id>>
            ran == Append(written, "model_predict")
            \* finally: os.unlink(tmp_path)
            cleaned == (tmps \cup {tmp}) \ {tmp}
        IN  IF env.predict = "raise"
               THEN ServerError(ran, "loaded", preds, cleaned)
               ELSE
            LET tried == Append(ran, "db_create")
                image_bgr_resized == <<"original", id>>
                pred_binary == <<"mask", id>>
                visualization == <<"visualization", id>>
                original_b64 == B64Encode(Imencode(image_bgr_resized))
                mask_b64 == B64Encode(Imencode(pred_binary))
                viz_b64 == B64Encode(Imencode(visualization))
                prediction == [id |-> id,
                               original_image_url |-> DataUrl(original_b64),
                               mask_url |-> DataUrl(viz_b64)]
                body == [id |-> id, original_image |-> DataUrl(original_b64),
                         mask |-> DataUrl(mask_b64),
                         visualization |-> DataUrl(viz_b64)]
            IN  IF env.create = "raise"
                   THEN ServerError(tried, "loaded", preds, cleaned)
                   ELSE Outcome(201, "", body, tried, "loaded",
                                Append(preds, prediction), cleaned)

\* views.py:116-127  the request carries a file: parse the threshold, decode
WithImage(req, env, inst, preds, tmps, id) ==
    IF req.threshold = "text"
       THEN ServerError(<<>>, inst, preds, tmps)
       ELSE LET decoded == Imdecode(req.image, env)
            IN  CASE decoded = "raise" -> ServerError(<<>>, inst, preds, tmps)
                  [] decoded = "none" ->
                        Outcome(400, "Invalid image format", <<>>, <<>>,
                                inst, preds, tmps)
                  [] OTHER -> RunInference(req, env, inst, preds, tmps, id)

\* The handler without line 111's test: request.FILES["image"] raises KeyError.
PredictViewUnchecked(req, env, inst, preds, tmps, id) ==
    IF ~req.has_image
       THEN ServerError(<<>>, inst, preds, tmps)
       ELSE WithImage(req, env, inst, preds, tmps, id)

\* views.py:101-200  predict
PredictView(req, env, inst, preds, tmps, id) ==
    IF ~req.has_image
       THEN Outcome(400, "Image file is required", <<>>, <<>>, inst, preds, tmps)
       ELSE WithImage(req, env, inst, preds, tmps, id)

\* One POST to /api/predictions/predict/, handled to its response.
Predict ==
    /\ nreq < MaxRequests
    /\ \E req \in Requests, env \in Environments :
        LET out == PredictView(req, env, model_instance, predictions,
                               tmp_files, nreq + 1)
        IN  /\ request' = req
            /\ response' = out.response
            /\ steps' = out.steps
            /\ model_instance' = out.model_instance
            /\ predictions' = out.predictions
            /\ tmp_files' = out.tmp_files
    /\ nreq' = nreq + 1
    /\ UNCHANGED download
    /\ UNCHANGED nonWebVars

\* views.py:211-230  download_mask. get_object() raises Http404 for an unknown
\* id inside the try block, so the except branch answers it.
DownloadMaskView(pk, preds) ==
    IF \A k \in 1..Len(preds) : preds[k].id # pk
       THEN [pk |-> pk, status |-> 500, content |-> <<>>]
       ELSE LET prediction == preds[CHOOSE k \in 1..Len(preds) : preds[k].id = pk]
                mask_data_url == prediction.mask_url
            IN  IF mask_data_url.prefix = "data:image/png;base64,"
                   THEN [pk |-> pk, status |-> 200,
                         content |-> B64Decode(mask_data_url.data)]
                   ELSE [pk |-> pk, status |-> 404, content |-> <<>>]

\* One GET of /api/predictions/<pk>/download_mask/, handled to its response.
DownloadMask ==
    /\ \E pk \in 1..MaxRequests : download' = DownloadMaskView(pk, predictions)
    /\ UNCHANGED <<model_instance, predictions, tmp_files, nreq, request,
                   response, steps>>
    /\ UNCHANGED nonWebVars

WebNext == Predict \/ DownloadMask

\* ------------------------------------------------ load_and_preprocess_data

\* A path is a sequence of components; a component is <<stem, suffix>>, the
\* suffix being "" for a directory name. NonePath stands for Python's None.
Dir(name) == <<name, "">>
File(stem, suffix) == <<stem, suffix>>
Child(path, component) == Append(path, component)
Sub(path, names) == path \o [i \in 1..Len(names) |-> Dir(names[i])]
Parent(path) == SubSeq(path, 1, Len(path) - 1)
Name(path) == path[Len(path)]
StemOf(path) == path[Len(path)][1]
SuffixOf(path) == path[Len(path)][2]
NonePath == <<>>

\* The dataset root the calls are given.
dataset_path == <<Dir("data")>>

\* Path.exists()
Exists(path) == path \in fs

\* The file stems that occur on disk, in sorted order.
Stems == <<"a", "b", "c">>

\* sorted(glob(str(dir / "*<suffix>")))
Glob(dir, suffix) ==
    LET found == SelectSeq(Stems, LAMBDA st : Exists(Child(dir, File(st, suffix))))
    IN  [i \in 1..Len(found) |-> Child(dir, File(found[i], suffix))]

RECURSIVE Concat(_)
Concat(seqs) == IF seqs = <<>> THEN <<>> ELSE Head(seqs) \o Concat(Tail(seqs))

\* data_loader.py:33-34
BaseDirs(root) ==
    <<Sub(root, <<"stroke_cropped">>), Sub(root, <<"stroke_noncropped">>)>>

\* data_loader.py:44-53  all_search_dirs
SearchDirs(base_path) ==
    <<Sub(base_path, <<"CROPPED", "TRAIN_CROP">>),
      Sub(base_path, <<"CROPPED", "TEST_CROP">>),
      Sub(base_path, <<"NON_CROPPED", "TRAIN">>),
      Sub(base_path, <<"NON_CROPPED", "TEST">>)>>

\* data_loader.py:64
NestedClasses == <<"STROKE", "NORMAL", "Bleeding", "Ischemia", "Normal">>
\* data_loader.py:97
FlatClasses == <<"Bleeding", "Ischemia", "Normal">>
\* data_loader.py:87
OverlaySuffixes == <<".png", ".jpg", ".jpeg">>

\* data_loader.py:70-74  image_files
ImageFiles(class_path) ==
    Glob(class_path, ".jpg") \o Glob(class_path, ".png") \o Glob(class_path, ".jpeg")

\* The images of the nested layout, in the order the loops of lines 37-79 visit
\* them, each with its search directory and class.
ClassWork(search_dir, class_dir) ==
    LET class_path == Child(search_dir, Dir(class_dir))
        files == IF Exists(class_path) THEN ImageFiles(class_path) ELSE <<>>
    IN  [k \in 1..Len(files) |->
            [search_dir |-> search_dir, class_dir |-> class_dir, img_path |-> files[k]]]

SearchDirWork(search_dir) ==
    IF Exists(search_dir)
       THEN Concat([c \in 1..Len(NestedClasses) |->
                        ClassWork(search_dir, NestedClasses[c])])
       ELSE <<>>

BaseWork(base_path) ==
    IF Exists(base_path)
       THEN Concat([s \in 1..Len(SearchDirs(base_path)) |->
                        SearchDirWork(SearchDirs(base_path)[s])])
       ELSE <<>>

NestedWork(root) ==
    Concat([b \in 1..Len(BaseDirs(root)) |-> BaseWork(BaseDirs(root)[b])])

SeqRange(s) == {s[i] : i \in 1..Len(s)}

\* The exists() tests and the listings of the nested layout's directory loops.
NestedDirProbes(root) ==
    LET bases == SeqRange(BaseDirs(root))
        sdirs == UNION {SeqRange(SearchDirs(b)) : b \in {x \in bases : Exists(x)}}
        cdirs == {Child(sd, Dir(c)) :
                    sd \in {x \in sdirs : Exists(x)}, c \in SeqRange(NestedClasses)}
    IN  bases \cup sdirs \cup cdirs

NestedDirScans(root) == {d \in NestedDirProbes(root) : Exists(d)}

\* data_loader.py:87-91  the first suffix whose overlay exists
FirstOverlay(overlay_dir, stem) ==
    LET hits == SelectSeq(OverlaySuffixes,
                          LAMBDA ext : Exists(Child(overlay_dir, File(stem, ext))))
    IN  IF hits = <<>> THEN NonePath ELSE Child(overlay_dir, File(stem, hits[1]))

\* The candidates lines 87-91 test: up to and including the first that exists.
OverlayProbes(overlay_dir, stem) ==
    {Child(overlay_dir, File(stem, OverlaySuffixes[i])) :
        i \in {j \in 1..Len(OverlaySuffixes) :
                 \A k \in 1..(j - 1) :
                    ~Exists(Child(overlay_dir, File(stem, OverlaySuffixes[k])))}}

\* data_loader.py:79-93  one image of the nested layout
NestedStep(acc, item) ==
    LET overlay_dir == Sub(item.search_dir, <<"OVERLAY", item.class_dir>>)
        filename == StemOf(item.img_path)
        overlay_file == IF Exists(overlay_dir)
                           THEN FirstOverlay(overlay_dir, filename)
                           ELSE NonePath
    IN  [images |-> Append(acc.images, item.img_path),
         masks |-> Append(acc.masks, overlay_file),
         probed |-> acc.probed \cup {overlay_dir}
                    \cup (IF Exists(overlay_dir)
                             THEN OverlayProbes(overlay_dir, filename) ELSE {}),
         scanned |-> acc.scanned]

RECURSIVE FoldNested(_, _)
FoldNested(work, acc) ==
    IF work = <<>> THEN acc
    ELSE FoldNested(Tail(work), NestedStep(acc, Head(work)))

\* The PNG files of the flat layout, in the order lines 97-107 visit them.
FlatClassWork(root, class_dir) ==
    LET png_dir == Sub(root, <<class_dir, "PNG">>)
        png_files == IF Exists(png_dir) THEN Glob(png_dir, ".png") ELSE <<>>
    IN  [k \in 1..Len(png_files) |->
            [overlay_dir |-> Sub(root, <<class_dir, "OVERLAY">>),
             png_file |-> png_files[k]]]

FlatWork(root) ==
    Concat([c \in 1..Len(FlatClasses) |-> FlatClassWork(root, FlatClasses[c])])

FlatDirProbes(root) == {Sub(root, <<c, "PNG">>) : c \in SeqRange(FlatClasses)}

\* One PNG of the flat layout, pairing it without testing overlay_file.exists().
FlatStepUntested(acc, item) ==
    LET overlay_file == Child(item.overlay_dir, Name(item.png_file))
    IN  [images |-> Append(acc.images, item.png_file),
         masks |-> Append(acc.masks,
                          IF Exists(item.overlay_dir) THEN overlay_file ELSE NonePath),
         probed |-> acc.probed \cup {item.overlay_dir},
         scanned |-> acc.scanned]

\* data_loader.py:107-115  one PNG of the flat layout
FlatStep(acc, item) ==
    LET filename == Name(item.png_file)
        overlay_file == Child(item.overlay_dir, filename)
    IN  IF Exists(item.overlay_dir) /\ Exists(overlay_file)
           THEN [images |-> Append(acc.images, item.png_file),
                 masks |-> Append(acc.masks, overlay_file),
                 probed |-> acc.probed \cup {item.overlay_dir, overlay_file},
                 scanned |-> acc.scanned]
           ELSE [images |-> Append(acc.images, item.png_file),
                 masks |-> Append(acc.masks, NonePath),
                 probed |-> acc.probed \cup {item.overlay_dir}
                            \cup (IF Exists(item.overlay_dir)
                                     THEN {overlay_file} ELSE {}),
                 scanned |-> acc.scanned]

RECURSIVE FoldFlat(_, _)
FoldFlat(work, acc) ==
    IF work = <<>> THEN acc
    ELSE FoldFlat(Tail(work), FlatStep(acc, Head(work)))

\* data_loader.py:24-25, 27-29  the lists as created, only the root tested
EmptyResult(root) ==
    [images |-> <<>>, masks |-> <<>>, probed |-> {root}, scanned |-> {}]

\* data_loader.py:31-122  the scan of an existing root, nested or flat layout
ScanLayouts(root) ==
    LET bases == SeqRange(BaseDirs(root))
        start == EmptyResult(root)
    IN  IF \E b \in bases : Exists(b)
           THEN FoldNested(NestedWork(root),
                           [start EXCEPT
                              !.probed = @ \cup NestedDirProbes(root),
                              !.scanned = NestedDirScans(root)])
           ELSE FoldFlat(FlatWork(root),
                         [start EXCEPT
                            !.probed = @ \cup bases \cup FlatDirProbes(root),
                            !.scanned = {d \in FlatDirProbes(root) : Exists(d)}])

\* load_and_preprocess_data without the early return of lines 27-29.
LoadUnguarded(root) == ScanLayouts(root)

\* data_loader.py:13-122  load_and_preprocess_data
LoadAndPreprocessData(root) ==
    IF ~Exists(root) THEN EmptyResult(root) ELSE ScanLayouts(root)

\* ------------------------------------------------------- create_datasets

\* data_loader.py:129  test_size: float = 0.15, in percent
DefaultTestSize == 15
\* The test sizes callers pass, in percent.
TestSizes == {DefaultTestSize, 50}

NoDataset == [image_paths |-> <<>>, mask_paths |-> <<>>, built |-> FALSE]

\* dataset.py:35-36  StrokeDataset.__init__
StrokeDataset(image_paths, mask_paths) ==
    [image_paths |-> image_paths, mask_paths |-> mask_paths, built |-> TRUE]

\* The orders train_test_split's shuffle can put n samples in.
Shuffles(n) == {p \in [1..n -> 1..n] : \A i, j \in 1..n : p[i] = p[j] => i = j}

\* s[order[from]], ..., s[order[to]]
Pick(s, order, from, to) == [i \in 1..(to - from + 1) |-> s[order[from + i - 1]]]

\* The split with the masks left in their own order, not the shuffled one.
TrainTestSplitMasksApart(images, masks, ts, order) ==
    LET n == Len(images)
        n_test == (ts * n + 99) \div 100
        n_train == n - n_test
        same == [i \in 1..n |-> i]
    IN  IF n_train = 0
           THEN [ok |-> FALSE, train |-> NoDataset, val |-> NoDataset]
           ELSE [ok |-> TRUE,
                 train |-> StrokeDataset(Pick(images, order, n_test + 1, n),
                                         Pick(masks, same, n_test + 1, n)),
                 val |-> StrokeDataset(Pick(images, order, 1, n_test),
                                       Pick(masks, same, 1, n_test))]

\* data_loader.py:153-162  train_test_split(image_paths, mask_paths, test_size)
\* and the two StrokeDatasets: n_test = ceil(test_size * n), n_train = n - n_test,
\* ValueError when the train set would be empty; the first n_test samples of the
\* shuffled order are the validation set, the rest the train set.
TrainTestSplit(images, masks, ts, order) ==
    LET n == Len(images)
        n_test == (ts * n + 99) \div 100
        n_train == n - n_test
    IN  IF n_train = 0
           THEN [ok |-> FALSE, train |-> NoDataset, val |-> NoDataset]
           ELSE [ok |-> TRUE,
                 train |-> StrokeDataset(Pick(images, order, n_test + 1, n),
                                         Pick(masks, order, n_test + 1, n)),
                 val |-> StrokeDataset(Pick(images, order, 1, n_test),
                                       Pick(masks, order, 1, n_test))]

\* The files and directories a dataset tree may hold; a tree holds any of them,
\* with the directories above each.
Leaves ==
    LET crop == Sub(dataset_path, <<"stroke_cropped", "CROPPED", "TRAIN_CROP">>)
        test == Sub(dataset_path, <<"stroke_noncropped", "NON_CROPPED", "TEST">>)
    IN  { dataset_path,
          Child(Sub(crop, <<"STROKE">>), File("a", ".jpg")),
          Child(Sub(crop, <<"STROKE">>), File("b", ".png")),
          Child(Sub(crop, <<"OVERLAY", "STROKE">>), File("a", ".png")),
          Child(Sub(crop, <<"OVERLAY", "NORMAL">>), File("b", ".png")),
          Child(Sub(test, <<"Normal">>), File("c", ".jpeg")),
          Sub(test, <<"OVERLAY", "Normal">>),
          Child(Sub(dataset_path, <<"Bleeding", "PNG">>), File("a", ".png")),
          Child(Sub(dataset_path, <<"Bleeding", "OVERLAY">>), File("a", ".png")),
          Child(Sub(dataset_path, <<"Ischemia", "PNG">>), File("b", ".png")),
          Child(Sub(dataset_path, <<"Ischemia", "OVERLAY">>), File("c", ".png")) }

Tree(leaves) == UNION {{SubSeq(p, 1, k) : k \in 1..Len(p)} : p \in leaves}

DataInit ==
    /\ fs \in {Tree(leaves) : leaves \in SUBSET Leaves}
    /\ data_pc = "start"
    /\ images_paths = <<>>
    /\ masks_paths = <<>>
    /\ probed = {}
    /\ scanned = {}
    /\ test_size = DefaultTestSize
    /\ split_calls = 0
    /\ train_dataset = NoDataset
    /\ val_dataset = NoDataset

\* No dataset call under way.
DataIdle ==
    /\ fs = {}
    /\ data_pc = "idle"
    /\ images_paths = <<>>
    /\ masks_paths = <<>>
    /\ probed = {}
    /\ scanned = {}
    /\ test_size = DefaultTestSize
    /\ split_calls = 0
    /\ train_dataset = NoDataset
    /\ val_dataset = NoDataset

\* A call of load_and_preprocess_data(dataset_path).
LoadData ==
    /\ data_pc = "start"
    /\ LET res == LoadAndPreprocessData(dataset_path)
       IN  /\ images_paths' = res.images
           /\ masks_paths' = res.masks
           /\ probed' = res.probed
           /\ scanned' = res.scanned
    /\ data_pc' = "loaded"
    /\ UNCHANGED <<fs, test_size, split_calls, train_dataset, val_dataset>>
    /\ UNCHANGED nonDataVars

\* A call of create_datasets(dataset_path, ..., test_size): the load, the
\* ValueError of lines 147-151, the split and the two datasets.
CreateDatasets ==
    /\ data_pc = "start"
    /\ LET res == LoadAndPreprocessData(dataset_path)
           n == Len(res.images)
       IN  /\ images_paths' = res.images
           /\ masks_paths' = res.masks
           /\ probed' = res.probed
           /\ scanned' = res.scanned
           /\ IF n = 0
                 THEN /\ data_pc' = "no_images"
                      /\ UNCHANGED <<test_size, split_calls, train_dataset, val_dataset>>
                 ELSE \E ts \in TestSizes, order \in Shuffles(n) :
                        LET split == TrainTestSplit(res.images, res.masks, ts, order)
                        IN  /\ test_size' = ts
                            /\ split_calls' = split_calls + 1
                            /\ train_dataset' = split.train
                            /\ val_dataset' = split.val
                            /\ data_pc' = IF split.ok THEN "created"
                                                      ELSE "split_failed"
    /\ UNCHANGED fs
    /\ UNCHANGED nonDataVars

DataNext == LoadData \/ CreateDatasets

\* ------------------------------------------ extract_red_mask_from_path

\* A pixel of the overlay after cv2.cvtColor(BGR2HSV): <<hue, saturation,
\* value>>, hue in 0..179. One pixel on the edge of the first red range, one
\* inside the second, one just outside by hue, and one too pale.
Pixels == {<<10, 50, 50>>, <<175, 200, 200>>, <<11, 255, 255>>}

\* The images cv2.imread can return: rows of pixels.
Overlays ==
    UNION {[1..h -> [1..w -> Pixels]] : h \in 1..MaxSource, w \in 1..MaxSource}

Rows(img) == Len(img)
Cols(img) == Len(img[1])

\* cv2.inRange: 255 where every channel lies within the bounds, ends included
InRange(px, lower, upper) ==
    IF \A ch \in 1..3 : lower[ch] <= px[ch] /\ px[ch] <= upper[ch] THEN 255 ELSE 0

\* utils.py:32-35  the two red ranges, or-ed, as 0.0 / 1.0
RedPixel(px) ==
    LET m1 == InRange(px, <<0, 50, 50>>, <<10, 255, 255>>)
        m2 == InRange(px, <<170, 50, 50>>, <<180, 255, 255>>)
        either == IF m1 > 0 \/ m2 > 0 THEN 255 ELSE 0
    IN  IF either > 0 THEN 1 ELSE 0

\* cv2.resize(mask, (width, height)) with the two sizes exchanged.
ResizeNearestSwapped(mask, w, h) ==
    [y \in 1..w |-> [x \in 1..h |->
        mask[((y - 1) * Rows(mask)) \div w + 1][((x - 1) * Cols(mask)) \div h + 1]]]

\* utils.py:36  cv2.resize(mask, (width, height), interpolation=INTER_NEAREST):
\* `height` rows of `width` values, each the source value at the scaled index
ResizeNearest(mask, w, h) ==
    [y \in 1..h |-> [x \in 1..w |->
        mask[((y - 1) * Rows(mask)) \div h + 1][((x - 1) * Cols(mask)) \div w + 1]]]

\* utils.py:37  (mask > 0.5).astype(np.float32)
Binarize(mask) ==
    [y \in 1..Rows(mask) |-> [x \in 1..Cols(mask) |->
        IF 2 * mask[y][x] > 1 THEN 1 ELSE 0]]

NoneMask == <<>>

\* utils.py:8-38  extract_red_mask_from_path(mask_path, width, height); img is
\* what cv2.imread returns when the file is a readable image
ExtractRedMaskFromPath(path, img, w, h) ==
    IF path = "None" THEN NoneMask
    ELSE IF path = "missing" THEN NoneMask
    ELSE IF path = "unreadable" THEN NoneMask
    ELSE LET red == [y \in 1..Rows(img) |-> [x \in 1..Cols(img) |->
                        RedPixel(img[y][x])]]
         IN  Binarize(ResizeNearest(red, w, h))

NoOverlay == <<<<CHOOSE px \in Pixels : TRUE>>>>

MaskInit ==
    /\ mask_pc = "start"
    /\ \/ mask_path \in {"None", "missing", "unreadable"} /\ overlay = NoOverlay
       \/ mask_path = "overlay" /\ overlay \in Overlays
    /\ width \in 1..MaxTarget
    /\ height \in 1..MaxTarget
    /\ mask_result = NoneMask

MaskIdle ==
    /\ mask_pc = "idle"
    /\ mask_path = "None"
    /\ overlay = NoOverlay
    /\ width = 1
    /\ height = 1
    /\ mask_result = NoneMask

\* A call of extract_red_mask_from_path(mask_path, width, height).
ExtractMask ==
    /\ mask_pc = "start"
    /\ mask_result' = ExtractRedMaskFromPath(mask_path, overlay, width, height)
    /\ mask_pc' = "done"
    /\ UNCHANGED <<mask_path, overlay, width, height>>
    /\ UNCHANGED nonMaskVars

MaskNext == ExtractMask

\* --------------------------------------------------------- StrokeDataset

\* What an image path can lead to: a readable image, no file, or a file
\* cv2.imread cannot decode.
ImageFileKinds == {"image", "missing", "unreadable"}

\* What a mask path can be: None, no file, an undecodable file, or an overlay
\* with a red pixel beside one of another colour.
MaskFiles ==
    {[path |-> k, img |-> NoOverlay] : k \in {"None", "missing", "unreadable"}}
    \cup
    {[path |-> "overlay", img |-> <<<<<<175, 200, 200>>, <<11, 255, 255>>>>>>]}

NoItem == [idx |-> 0, img |-> [shape |-> <<>>, data |-> "none"],
           mask |-> NoneMask, transformed |-> FALSE]

\* np.zeros((img_height, img_width), dtype=np.float32)
ZeroMask(h, w) == [y \in 1..h |-> [x \in 1..w |-> 0]]

\* dataset.py:47-52 with the fallback's shape given as (img_width, img_height, 3).
ReadImageZerosSwapped(file, h, w) ==
    IF file \in {"missing", "unreadable"}
       THEN [shape |-> <<w, h, 3>>, data |-> "zeros"]
       ELSE [shape |-> <<h, w, 3>>, data |-> "pixels"]

\* dataset.py:47-52  cv2.imread, then zeros or the image in RGB, resized
ReadImage(file, h, w) ==
    IF file \in {"missing", "unreadable"}
       THEN [shape |-> <<h, w, 3>>, data |-> "zeros"]
       ELSE [shape |-> <<h, w, 3>>, data |-> "pixels"]

\* dataset.py:54-57  the mask, or zeros when there is none
ReadMask(file, h, w) ==
    LET mask == ExtractRedMaskFromPath(file.path, file.img, w, h)
    IN  IF mask = NoneMask THEN ZeroMask(h, w) ELSE mask

\* dataset.py:41-43  __len__
DatasetLen(dataset) == Len(dataset.image_paths)

\* dataset.py:45-63  __getitem__
GetItemOf(dataset, idx, h, w, tf) ==
    [idx |-> idx,
     img |-> ReadImage(dataset.image_paths[idx], h, w),
     mask |-> ReadMask(dataset.mask_paths[idx], h, w),
     transformed |-> tf]

DatasetInit ==
    /\ ds_pc = "new"
    /\ \E n \in 0..MaxItems :
          /\ given_images \in [1..n -> ImageFileKinds]
          /\ given_masks \in [1..n -> MaskFiles]
    /\ img_height \in 1..MaxTarget
    /\ img_width \in 1..MaxTarget
    /\ transforms \in BOOLEAN
    /\ ds = NoDataset
    /\ sample = NoItem

DatasetIdle ==
    /\ ds_pc = "idle"
    /\ given_images = <<>>
    /\ given_masks = <<>>
    /\ img_height = 1
    /\ img_width = 1
    /\ transforms = FALSE
    /\ ds = NoDataset
    /\ sample = NoItem

\* StrokeDataset(image_paths, mask_paths, img_height, img_width, transforms)
Construct ==
    /\ ds_pc = "new"
    /\ ds' = StrokeDataset(given_images, given_masks)
    /\ ds_pc' = "built"
    /\ UNCHANGED <<given_images, given_masks, img_height, img_width, transforms,
                   sample>>
    /\ UNCHANGED nonDsVars

\* dataset[idx] for an index below len(dataset), 1-based here
GetItem ==
    /\ ds_pc = "built"
    /\ \E idx \in 1..DatasetLen(ds) :
          sample' = GetItemOf(ds, idx, img_height, img_width, transforms)
    /\ UNCHANGED <<ds_pc, given_images, given_masks, img_height, img_width,
                   transforms, ds>>
    /\ UNCHANGED nonDsVars

DatasetNext == Construct \/ GetItem

\* -------------------------------------------------------- StrokeInference

\* The paths a call may be given: one that names nothing, one that names a
\* file cv2.imread cannot decode, and two scans.
Scans == {"scan_a", "scan_b"}

InferPaths == {"missing", "unreadable"} \cup Scans

\* Path.exists(), inference.py:104.
PathExists(path) == path # "missing"

NoneImage == [pixels |-> "none", order |-> "none", shape |-> "none"]

\* cv2.imread, inference.py:107: None for what it cannot decode, else the
\* picture in BGR order at the size of the file.
Imread(path) ==
    IF path \in Scans
    THEN [pixels |-> path, order |-> "BGR", shape |-> "file"]
    ELSE NoneImage

\* cv2.cvtColor(bgr, cv2.COLOR_BGR2RGB), inference.py:111.
CvtColor(bgr) == [bgr EXCEPT !.order = "RGB"]

\* cv2.resize to (self.img_width, self.img_height), inference.py:112-114.
ResizeLinear(rgb) == [rgb EXCEPT !.shape = "img_height x img_width"]

\* Probabilities in steps of 1/MaxProb; a probability map of two pixels.
ProbLevels == 0..MaxProb

ProbMaps == [{"p", "q"} -> ProbLevels]

\* What a network can be: a probability map for each scan (the sigmoid of
\* inference.py:123 applied to the logits of inference.py:121).
Networks == [Scans -> ProbMaps]

\* The mutant of PredBinary: a tie with the threshold counts as stroke.
PredBinaryAtLeast(prob, threshold) ==
    [i \in DOMAIN prob |-> IF prob[i] >= threshold THEN 255 ELSE 0]

\* (prob > threshold).astype(np.uint8) * 255, inference.py:124.
PredBinary(prob, threshold) ==
    [i \in DOMAIN prob |-> IF prob[i] > threshold THEN 255 ELSE 0]

NoneResult == <<>>

Raise(exception, log) == [raised |-> exception, result |-> NoneResult, log |-> log]

\* The mutant of InferencePredict: the existence test of inference.py:104 left
\* out, so that a missing file is first noticed by cv2.imread.
InferencePredictNoExistsTest(path, threshold, network) ==
    IF Imread(path) = NoneImage
    THEN Raise("ValueError", <<"imread">>)
    ELSE LET rgb_resized == ResizeLinear(CvtColor(Imread(path)))
             prob == network[rgb_resized.pixels]
         IN [raised |-> "",
             result |-> <<rgb_resized, prob, PredBinary(prob, threshold)>>,
             log |-> <<"imread", "model">>]

\* StrokeInference.predict, inference.py:90-126.
InferencePredict(path, threshold, network) ==
    IF ~PathExists(path)
    THEN Raise("FileNotFoundError", <<"exists">>)
    ELSE IF Imread(path) = NoneImage
    THEN Raise("ValueError", <<"exists", "imread">>)
    ELSE LET rgb_resized == ResizeLinear(CvtColor(Imread(path)))
             prob == network[rgb_resized.pixels]
             pred_binary == PredBinary(prob, threshold)
         IN [raised |-> "",
             result |-> <<rgb_resized, prob, pred_binary>>,
             log |-> <<"exists", "imread", "model">>]

\* The steps of one predict call, marked with the position of its path.
At(i, log) == [k \in 1..Len(log) |-> <<i, log[k]>>]

InferInit ==
    /\ inf_pc = "start"
    /\ inf_model \in Networks
    /\ inf_threshold \in ProbLevels
    /\ inf_path = "none"
    /\ inf_paths = <<>>
    /\ inf_result = NoneResult
    /\ inf_raised = ""
    /\ inf_log = <<>>

\* No StrokeInference object exists.
InferIdle ==
    /\ inf_pc = "idle"
    /\ inf_model = [s \in Scans |-> [i \in {"p", "q"} |-> 0]]
    /\ inf_threshold = 0
    /\ inf_path = "none"
    /\ inf_paths = <<>>
    /\ inf_result = NoneResult
    /\ inf_raised = ""
    /\ inf_log = <<>>

\* One call inference.predict(image_path, threshold).
CallPredict ==
    /\ inf_pc = "start"
    /\ \E path \in InferPaths :
         LET r == InferencePredict(path, inf_threshold, inf_model)
         IN /\ inf_path' = path
            /\ inf_pc' = IF r.raised = "" THEN "predict_returned" ELSE "predict_raised"
            /\ inf_result' = r.result
            /\ inf_raised' = r.raised
            /\ inf_log' = At(1, r.log)
    /\ UNCHANGED <<inf_model, inf_threshold, inf_paths>>
    /\ UNCHANGED nonInfVars

\* The lists of at most n members of S.
Lists(S, n) == UNION {[1..k -> S] : k \in 0..n}

\* The mutant of PredictBatchFrom: the first failure ends the loop.
RECURSIVE PredictBatchStopsAtFailure(_, _, _, _)
PredictBatchStopsAtFailure(paths, threshold, network, i) ==
    IF i > Len(paths)
    THEN [results |-> <<>>, log |-> <<>>]
    ELSE LET r == InferencePredict(paths[i], threshold, network)
             rest == PredictBatchStopsAtFailure(paths, threshold, network, i + 1)
         IN IF r.raised = ""
            THEN [results |-> <<r.result>> \o rest.results,
                  log |-> At(i, r.log) \o rest.log]
            ELSE [results |-> <<NoneResult>>, log |-> At(i, r.log)]

\* The loop of predict_batch from the i-th path on, inference.py:139-146:
\* what it appends to results, and what it does.
RECURSIVE PredictBatchFrom(_, _, _, _)
PredictBatchFrom(paths, threshold, network, i) ==
    IF i > Len(paths)
    THEN [results |-> <<>>, log |-> <<>>]
    ELSE LET r == InferencePredict(paths[i], threshold, network)
             rest == PredictBatchFrom(paths, threshold, network, i + 1)
         IN [results |-> <<IF r.raised = "" THEN r.result ELSE NoneResult>>
                          \o rest.results,
             log |-> At(i, r.log) \o rest.log]

\* StrokeInference.predict_batch, inference.py:128-147.
InferencePredictBatch(paths, threshold, network) ==
    PredictBatchFrom(paths, threshold, network, 1)

\* One call inference.predict_batch(image_paths, threshold).
CallPredictBatch ==
    /\ inf_pc = "start"
    /\ \E paths \in Lists(InferPaths, MaxBatch) :
         LET r == InferencePredictBatch(paths, inf_threshold, inf_model)
         IN /\ inf_paths' = paths
            /\ inf_pc' = "batch_returned"
            /\ inf_result' = r.results
            /\ inf_raised' = ""
            /\ inf_log' = r.log
    /\ UNCHANGED <<inf_model, inf_threshold, inf_path>>
    /\ UNCHANGED nonInfVars

InferNext == CallPredict \/ CallPredictBatch

\* ------------------------------------------------------- the train command

\* The statements of train, commands.py:25-102, in order: the line each starts
\* on, the column it is indented to, and whether it ends in a colon and so
\* opens a block.
Stmt(line, indent, opens) == [line |-> line, indent |-> indent, opens |-> opens]

TrainSource ==
    << Stmt(25, 4, FALSE), Stmt(26, 4, TRUE), Stmt(27, 8, FALSE),
       Stmt(29, 4, TRUE), Stmt(30, 8, FALSE), Stmt(31, 8, FALSE),
       Stmt(32, 8, FALSE), Stmt(33, 4, TRUE), Stmt(34, 8, FALSE),
       Stmt(35, 8, FALSE), Stmt(37, 4, FALSE), Stmt(45, 4, FALSE),
       Stmt(52, 4, FALSE), Stmt(60, 4, FALSE), Stmt(61, 4, FALSE),
       Stmt(63, 4, FALSE), Stmt(78, 8, FALSE), Stmt(79, 8, FALSE),
       Stmt(80, 8, FALSE), Stmt(81, 4, FALSE), Stmt(82, 4, FALSE),
       Stmt(83, 4, TRUE), Stmt(84, 8, FALSE), Stmt(85, 8, FALSE),
       Stmt(87, 4, TRUE), Stmt(88, 8, TRUE), Stmt(89, 12, FALSE),
       Stmt(90, 12, FALSE), Stmt(91, 12, FALSE), Stmt(98, 8, TRUE),
       Stmt(99, 12, FALSE), Stmt(100, 12, FALSE), Stmt(102, 4, FALSE) >>

\* Python's rule for indentation: a statement may be indented deeper than the
\* one before it only when that one opens a block.
UnexpectedIndent(source) ==
    \E i \in 1..(Len(source) - 1) :
        source[i + 1].indent > source[i].indent /\ ~source[i].opens

\* The files the command reads and writes.
best_model_source == "checkpoint_dir/best_model.pth"
best_model_dest == "models/best_model.pth"
onnx_path == "onnx_output_path"

CommandFiles == {best_model_source, best_model_dest, onnx_path}

Configs == [convert_onnx : BOOLEAN]

\* What the surroundings will do: repo.pull(), whether train_model writes a
\* checkpoint (it does not when epochs is 0), and convert_to_onnx.
CommandEnvironments ==
    [dvc_pull : {"ok", "raise"}, train_saves : BOOLEAN, onnx : {"ok", "raise"}]

Ran(done, files) == [raised |-> "", steps |-> done, files |-> files]

\* commands.py:87-100  the ONNX export and its except branch. convert_to_onnx
\* reads the checkpoint (onnx_converter.py:40) and writes only output_path.
ExportStep(cfg, env, done, files) ==
    IF ~cfg.convert_onnx
       THEN Ran(done, files)
       ELSE IF env.onnx = "ok" /\ best_model_source \in files
               THEN Ran(Append(done, "convert_to_onnx"), files \cup {onnx_path})
               ELSE Ran(Append(done, "convert_to_onnx"), files)

\* commands.py:81-85  the copy of the checkpoint
CopyStep(cfg, env, done, files) ==
    IF best_model_source \in files
       THEN ExportStep(cfg, env, Append(done, "copy2"), files \cup {best_model_dest})
       ELSE ExportStep(cfg, env, done, files)

\* commands.py:25-102  the body of train, as its statements read
TrainBody(cfg, env, files) ==
    LET obtained == IF env.dvc_pull = "ok"
                       THEN <<"dvc_pull">>
                       ELSE <<"dvc_pull", "download_data">>
        trained == obtained \o <<"create_datasets", "train_model">>
        saved == IF env.train_saves THEN files \cup {best_model_source} ELSE files
    IN  CopyStep(cfg, env, trained, saved)

\* The command python -m brain_stroke_segmentation.commands train: the module
\* is compiled first, and nothing of it runs when that fails.
TrainCommand(cfg, env, files) ==
    IF UnexpectedIndent(TrainSource)
       THEN [raised |-> "IndentationError", steps |-> <<>>, files |-> files]
       ELSE TrainBody(cfg, env, files)

CommandInit ==
    /\ cmd_pc = "start"
    /\ cmd_cfg \in Configs
    /\ cmd_env \in CommandEnvironments
    /\ cmd_files \in SUBSET CommandFiles
    /\ cmd_steps = <<>>
    /\ cmd_raised = ""

\* The command is not being run.
CommandIdle ==
    /\ cmd_pc = "idle"
    /\ cmd_cfg = [convert_onnx |-> FALSE]
    /\ cmd_env = [dvc_pull |-> "ok", train_saves |-> FALSE, onnx |-> "ok"]
    /\ cmd_files = {}
    /\ cmd_steps = <<>>
    /\ cmd_raised = ""

\* One run of the train command, to its end.
RunTrain ==
    /\ cmd_pc = "start"
    /\ LET out == TrainCommand(cmd_cfg, cmd_env, cmd_files)
       IN  /\ cmd_files' = out.files
           /\ cmd_steps' = out.steps
           /\ cmd_raised' = out.raised
    /\ cmd_pc' = "done"
    /\ UNCHANGED <<cmd_cfg, cmd_env>>
    /\ UNCHANGED nonCmdVars

CommandNext == RunTrain

\* ---------------------------------------------------------- specifications

\* train_model called once; the web server not yet started.
InitTrain == TrainInit /\ WebInit /\ DataIdle /\ MaskIdle /\ DatasetIdle /\ InferIdle /\ CommandIdle

SpecTrain == InitTrain /\ [][TrainNext]_vars

\* The web server from start-up; no training under way.
InitWeb == WebInit /\ TrainIdle /\ DataIdle /\ MaskIdle /\ DatasetIdle /\ InferIdle /\ CommandIdle

SpecWeb == InitWeb /\ [][WebNext]_vars

\* One call of load_and_preprocess_data or create_datasets on some dataset tree.
InitData == DataInit /\ TrainIdle /\ WebInit /\ MaskIdle /\ DatasetIdle /\ InferIdle /\ CommandIdle

SpecData == InitData /\ [][DataNext]_vars

\* One call of extract_red_mask_from_path.
InitMask == MaskInit /\ TrainIdle /\ WebInit /\ DataIdle /\ DatasetIdle /\ InferIdle /\ CommandIdle

SpecMask == InitMask /\ [][MaskNext]_vars

\* One StrokeDataset: its construction, then len() and indexing.
InitDataset == DatasetInit /\ TrainIdle /\ WebInit /\ DataIdle /\ MaskIdle /\ InferIdle /\ CommandIdle

SpecDataset == InitDataset /\ [][DatasetNext]_vars

\* One StrokeInference object and one call of predict or predict_batch on it.
InitInference == InferInit /\ TrainIdle /\ WebInit /\ DataIdle /\ MaskIdle /\ DatasetIdle /\ CommandIdle

SpecInference == InitInference /\ [][InferNext]_vars

\* One run of the train command under some configuration and surroundings.
InitCommand ==
    /\ CommandInit /\ TrainIdle /\ WebInit /\ DataIdle /\ MaskIdle /\ DatasetIdle
    /\ InferIdle

SpecCommand == InitCommand /\ [][CommandNext]_vars

\* ------------------------------------------- properties of the predict endpoint

\* C1: a POST with no file under "image" is answered 400, and handling it calls
\* neither get_model nor model.predict, leaves _model_instance as it was and
\* creates no Prediction.
C1_NoImage ==
    [][(nreq' = nreq + 1 /\ ~request'.has_image) =>
        /\ response'.status = 400
        /\ steps' = <<>>
        /\ model_instance' = model_instance
        /\ predictions' = predictions]_vars

\* C1 witness: such a request answered 400 on a server that has already loaded
\* the model and stored a prediction.
C1_Witness ==
    /\ nreq > 1
    /\ ~request.has_image
    /\ response.status = 400
    /\ model_instance = "loaded"
    /\ Len(predictions) = 1

\* C2 (as claimed): a POST whose "image" bytes cannot be decoded is answered 400
\* "Invalid image format", with no get_model call, no temporary file and no
\* Prediction created.
C2_UndecodableIs400 ==
    (nreq > 0 /\ request.has_image /\ request.image = "garbage") =>
        /\ response.status = 400
        /\ response.error = "Invalid image format"
        /\ steps = <<>>

\* The download answered 200 and was for the prediction the last predict
\* request created.
DownloadedLast ==
    /\ response.status = 201
    /\ download.status = 200
    /\ download.pk = response.body.id

\* C14: the PNG download_mask serves for a prediction decodes to the same image
\* as the "mask" field of the predict response that created the prediction.
C14_DownloadIsMask ==
    DownloadedLast =>
        PngImage(download.content) = PngImage(B64Decode(response.body.mask.data))

\* ------------------------------------------ properties of the dataset assembly

\* The nested layout is in force: a stroke_cropped or stroke_noncropped exists.
NestedLayout == \E b \in SeqRange(BaseDirs(dataset_path)) : Exists(b)

\* The image files of the tree that the layout in force makes part of the
\* dataset: <base>/<kind>/<split>/<class>/<file> with an image suffix, or
\* <class>/PNG/<file>.png.
TreeImages ==
    LET depth == Len(dataset_path)
    IN  IF NestedLayout
           THEN {p \in fs :
                    /\ Len(p) = depth + 5
                    /\ SuffixOf(p) \in {".jpg", ".png", ".jpeg"}
                    /\ p[depth + 4] \in {Dir(c) : c \in SeqRange(NestedClasses)}
                    /\ Parent(Parent(p)) \in
                          UNION {SeqRange(SearchDirs(b)) :
                                    b \in SeqRange(BaseDirs(dataset_path))}}
           ELSE {p \in fs :
                    /\ Len(p) = depth + 3
                    /\ SuffixOf(p) = ".png"
                    /\ p[depth + 2] = Dir("PNG")
                    /\ p[depth + 1] \in {Dir(c) : c \in SeqRange(FlatClasses)}}

\* The OVERLAY directory of the class of image p.
OverlayDirOf(p) ==
    IF NestedLayout
       THEN Append(Append(Parent(Parent(p)), Dir("OVERLAY")), p[Len(p) - 1])
       ELSE Append(Parent(Parent(p)), Dir("OVERLAY"))

\* m is an existing entry of that directory named like p (flat) or with p's
\* stem (nested).
IsOverlayOf(m, p) ==
    /\ m # NonePath
    /\ m \in fs
    /\ Parent(m) = OverlayDirOf(p)
    /\ IF NestedLayout THEN StemOf(m) = StemOf(p) /\ SuffixOf(m) # ""
                       ELSE Name(m) = Name(p)

LoadReturned == data_pc \in {"loaded", "no_images", "created", "split_failed"}

\* C6: the two lists have the same length; every mask entry is None or an
\* existing file of the OVERLAY directory of its image's class with the image's
\* name (flat) or stem (nested); every image of the tree is returned, and with
\* None when it has no such overlay.
C6_Pairing ==
    LoadReturned =>
        /\ Len(images_paths) = Len(masks_paths)
        /\ \A i \in 1..Len(images_paths) :
              /\ images_paths[i] \in TreeImages
              /\ i <= Len(masks_paths) =>
                    \/ masks_paths[i] = NonePath
                    \/ IsOverlayOf(masks_paths[i], images_paths[i])
        /\ \A p \in TreeImages :
              \E i \in 1..Len(images_paths) :
                 /\ images_paths[i] = p
                 /\ i <= Len(masks_paths)
                 /\ (~\E m \in fs : IsOverlayOf(m, p)) => masks_paths[i] = NonePath

\* C6 witness: a flat tree whose OVERLAY directory exists, with one image that
\* has its overlay and one that has none.
C6_Witness ==
    /\ data_pc = "loaded"
    /\ ~NestedLayout
    /\ \E i, j \in 1..Len(images_paths) :
          /\ masks_paths[i] # NonePath
          /\ masks_paths[j] = NonePath
          /\ Exists(OverlayDirOf(images_paths[j]))

\* C7: with a dataset path that does not exist the call returns two empty lists
\* and touches the file system only to test the path itself: it lists no
\* directory and tests nothing below the root.
C7_MissingPath ==
    (data_pc = "loaded" /\ ~Exists(dataset_path)) =>
        /\ images_paths = <<>>
        /\ masks_paths = <<>>
        /\ scanned = {}
        /\ probed = {dataset_path}

\* C7 witness: the call has returned for a missing dataset path.
C7_Witness ==
    /\ data_pc = "loaded"
    /\ ~Exists(dataset_path)
    /\ probed = {dataset_path}

CreateReturnedOrRaised == data_pc \in {"no_images", "created", "split_failed"}

\* ceil(test_size * n) for a test size in percent.
CeilShare(ts, n) == CHOOSE k \in 0..n : 100 * k >= ts * n /\ 100 * (k - 1) < ts * n

\* Every pair of the loaded lists sits at exactly one position of exactly one
\* dataset, image and mask at the same position.
Partitioned ==
    /\ train_dataset.built /\ val_dataset.built
    /\ Len(train_dataset.image_paths) = Len(train_dataset.mask_paths)
    /\ Len(val_dataset.image_paths) = Len(val_dataset.mask_paths)
    /\ Len(train_dataset.image_paths) + Len(val_dataset.image_paths)
          = Len(images_paths)
    /\ \A i \in 1..Len(images_paths) :
          LET T == {j \in 1..Len(train_dataset.image_paths) :
                       train_dataset.image_paths[j] = images_paths[i]}
              V == {j \in 1..Len(val_dataset.image_paths) :
                       val_dataset.image_paths[j] = images_paths[i]}
          IN  /\ Cardinality(T) + Cardinality(V) = 1
              /\ \A j \in T : train_dataset.mask_paths[j] = masks_paths[i]
              /\ \A j \in V : val_dataset.mask_paths[j] = masks_paths[i]

NoDatasets == ~train_dataset.built /\ ~val_dataset.built

\* C8 (amended): create_datasets raises ValueError exactly when no image was
\* found, before any split or dataset; with n >= 1 images and a test size with
\* ceil(test_size * n) < n the pairs are partitioned between the two datasets,
\* image and mask together; with ceil(test_size * n) = n (a single image, at the
\* default 0.15) train_test_split raises and no dataset is built.
C8_CreateDatasets ==
    CreateReturnedOrRaised =>
        LET n == Len(images_paths)
        IN  /\ (n = 0) <=> (data_pc = "no_images")
            /\ data_pc = "no_images" => split_calls = 0 /\ NoDatasets
            /\ (n >= 1 /\ CeilShare(test_size, n) < n) =>
                  data_pc = "created" /\ split_calls = 1 /\ Partitioned
            /\ (n >= 1 /\ CeilShare(test_size, n) = n) =>
                  data_pc = "split_failed" /\ split_calls = 1 /\ NoDatasets

\* C8 witness: three pairs split, the validation set holding a pair with a mask
\* and the train set a pair without.
C8_Witness ==
    /\ data_pc = "created"
    /\ Len(images_paths) = 3
    /\ \E j \in 1..Len(val_dataset.mask_paths) : val_dataset.mask_paths[j] # NonePath
    /\ \E j \in 1..Len(train_dataset.mask_paths) : train_dataset.mask_paths[j] = NonePath

\* C8 (as claimed): ValueError before any split when no image is found, and
\* with at least one image every pair in exactly one of the two datasets.
C8_AsClaimed ==
    CreateReturnedOrRaised =>
        /\ Len(images_paths) = 0 =>
              data_pc = "no_images" /\ split_calls = 0 /\ NoDatasets
        /\ Len(images_paths) >= 1 => data_pc = "created" /\ Partitioned

\* ---------------------------- properties of the mask extraction and the dataset

\* m is a mask of h rows of w values, each 0.0 or 1.0.
IsBinaryMask(m, h, w) ==
    /\ Len(m) = h
    /\ \A y \in 1..Len(m) :
          /\ Len(m[y]) = w
          /\ \A x \in 1..Len(m[y]) : m[y][x] \in {0, 1}

\* C9: extract_red_mask_from_path returns None exactly when the path is None,
\* does not exist or cannot be read as an image, and otherwise a mask of
\* `height` rows of `width` values, each 0.0 or 1.0.
C9_ExtractMask ==
    mask_pc = "done" =>
        /\ (mask_result = NoneMask) <=> (mask_path \in {"None", "missing", "unreadable"})
        /\ mask_path = "overlay" => IsBinaryMask(mask_result, height, width)

\* C9 witness: a mask wider than high, with red and other pixels, from an
\* overlay of more rows.
C9_Witness ==
    /\ mask_pc = "done"
    /\ mask_path = "overlay"
    /\ width > height
    /\ Rows(overlay) > height
    /\ \E x1, x2 \in 1..width : mask_result[1][x1] = 1 /\ mask_result[1][x2] = 0

SetMax(S) == CHOOSE m \in S : \A x \in S : x <= m
SetMin(S) == CHOOSE m \in S : \A x \in S : m <= x

\* The best validation Dice of the first k epochs of history h (0.0 before any).
RunningBest(h, k) == SetMax({0} \cup {h[j] : j \in 1..k})

\* Epoch e did not strictly exceed the best value seen before it.
NoGain(h, e) == h[e] <= RunningBest(h, e - 1)

\* Epoch e completes a run of p consecutive epochs without a gain.
StalledAt(h, e, p) == e >= p /\ \A k \in (e - p + 1)..e : NoGain(h, k)

\* The earliest epoch that attained the maximum of h.
EarliestBest(h) ==
    SetMin({e \in 1..Len(h) : h[e] = RunningBest(h, Len(h))})

\* C3: for epochs >= 1 and patience >= 1 the loop goes on exactly while no epoch
\* has completed `patience` consecutive epochs without a gain, and it has ended
\* either at the first such epoch or, if there is none, after `epochs` epochs.
C3_EarlyStopping ==
    (epochs >= 1 /\ patience >= 1) =>
        LET n == Len(val_history)
        IN  /\ n = epoch
            /\ n <= epochs
            /\ \A e \in 1..(n - 1) : ~StalledAt(val_history, e, patience)
            /\ pc = "loop" => (n = 0 \/ ~StalledAt(val_history, n, patience))
            /\ pc # "loop" => (n = epochs \/ StalledAt(val_history, n, patience))

\* C3 witness: the loop was left before `epochs` epochs, patience >= 2.
C3_Witness ==
    /\ pc = "load"
    /\ patience >= 2
    /\ Len(val_history) < epochs
    /\ Len(val_history) > patience

\* C4: torch.save ran in exactly the epochs whose validation Dice strictly
\* exceeded the best of the earlier epochs (0.0 at first), and once it ran the
\* file holds the weights of the earliest epoch with the maximum Dice.
C4_Checkpoint ==
    /\ saved_epochs = {e \in 1..Len(val_history) : ~NoGain(val_history, e)}
    /\ saved_epochs # {} => ckpt_file = EpochWeights(EarliestBest(val_history))
    /\ saved_epochs = {} => ckpt_file \in {AbsentFile, StaleWeights}

\* C4 witness: a later epoch tied the maximum and the file still holds the
\* earlier epoch's weights.
C4_Witness ==
    \E e1, e2 \in 1..Len(val_history) :
        /\ e1 < e2
        /\ val_history[e1] = RunningBest(val_history, Len(val_history))
        /\ val_history[e2] = val_history[e1]
        /\ ckpt_file = EpochWeights(e1)

\* C5 (as claimed): whenever train_model returns, the returned model carries the
\* weights of the epoch of this call with the highest validation Dice.
C5_ReturnsBestOfRun ==
    pc = "returned" =>
        /\ Len(val_history) >= 1
        /\ model = EpochWeights(EarliestBest(val_history))

\* ------------------------------------------------ properties of StrokeInference

PredictDone == inf_pc \in {"predict_returned", "predict_raised"}

ModelRan == \E k \in 1..Len(inf_log) : inf_log[k][2] = "model"

\* C11: predict raises FileNotFoundError for a path that does not exist and
\* ValueError for a file that cannot be decoded, both without the model having
\* run; for any other path it returns the triple of the scan in RGB order at
\* the model's size, the probability map the model gives for it, and a mask.
C11_PredictOutcome ==
    PredictDone =>
        /\ inf_path = "missing" =>
              /\ inf_pc = "predict_raised"
              /\ inf_raised = "FileNotFoundError"
              /\ ~ModelRan
        /\ inf_path = "unreadable" =>
              /\ inf_pc = "predict_raised"
              /\ inf_raised = "ValueError"
              /\ ~ModelRan
        /\ inf_path \in Scans =>
              /\ inf_pc = "predict_returned"
              /\ inf_raised = ""
              /\ Len(inf_result) = 3
              /\ inf_result[1] = [pixels |-> inf_path, order |-> "RGB",
                                  shape |-> "img_height x img_width"]
              /\ inf_result[2] = inf_model[inf_path]
              /\ DOMAIN inf_result[3] = DOMAIN inf_result[2]
              /\ ModelRan

\* A call that raised ValueError for a file that exists but cannot be decoded.
C11_Witness ==
    /\ inf_pc = "predict_raised"
    /\ inf_path = "unreadable"
    /\ inf_raised = "ValueError"
    /\ inf_log = <<<<1, "exists">>, <<1, "imread">>>>

\* C12: in the binary mask predict returns every pixel is 0 or 255, and a pixel
\* is 255 exactly when its probability is strictly greater than the threshold.
C12_StrictThreshold ==
    inf_pc = "predict_returned" =>
        \A i \in DOMAIN inf_result[3] :
            /\ inf_result[3][i] \in {0, 255}
            /\ inf_result[3][i] = 255 <=> inf_result[2][i] > inf_threshold

\* A returned mask with one pixel whose probability equals the threshold, which
\* is 0, and one whose probability is above it, which is 255.
C12_Witness ==
    /\ inf_pc = "predict_returned"
    /\ inf_result[2]["p"] = inf_threshold
    /\ inf_result[3]["p"] = 0
    /\ inf_result[2]["q"] > inf_threshold
    /\ inf_result[3]["q"] = 255

\* The prediction tuple of a scan under the network and threshold in use.
TupleOf(scan) ==
    << [pixels |-> scan, order |-> "RGB", shape |-> "img_height x img_width"],
       inf_model[scan],
       [i \in DOMAIN inf_model[scan] |->
           IF inf_model[scan][i] > inf_threshold THEN 255 ELSE 0] >>

Logged(i, step) == \E k \in 1..Len(inf_log) : inf_log[k] = <<i, step>>

\* C13: predict_batch always returns, with one entry per path in the order of
\* the paths: the prediction tuple of a path that can be predicted, None for
\* one that cannot; and every path is processed, whatever failed before it.
C13_BatchKeepsGoing ==
    inf_pc = "batch_returned" =>
        /\ inf_raised = ""
        /\ Len(inf_result) = Len(inf_paths)
        /\ \A i \in 1..Len(inf_paths) :
              /\ inf_paths[i] \in Scans =>
                    inf_result[i] = TupleOf(inf_paths[i]) /\ Logged(i, "model")
              /\ inf_paths[i] \notin Scans => inf_result[i] = NoneResult
              /\ Logged(i, "exists")

\* A batch whose first path failed and whose second path was still predicted.
C13_Witness ==
    /\ inf_pc = "batch_returned"
    /\ Len(inf_paths) = 2
    /\ inf_paths[1] \notin Scans
    /\ inf_paths[2] \in Scans
    /\ inf_result[1] = NoneResult
    /\ inf_result[2] = TupleOf(inf_paths[2])

\* ----------------------------------------------- properties of the train command

\* The steps the command is to have run, given what exists at its end.
StepsInOrder ==
    (IF cmd_env.dvc_pull = "ok" THEN <<"dvc_pull">> ELSE <<"dvc_pull", "download_data">>)
    \o <<"create_datasets", "train_model">>
    \o (IF best_model_source \in cmd_files THEN <<"copy2">> ELSE <<>>)
    \o (IF cmd_cfg.convert_onnx THEN <<"convert_to_onnx">> ELSE <<>>)

\* C15: the train command obtains the data, builds the datasets, trains, copies
\* best_model.pth to models/ when it exists, and exports to ONNX only when
\* cfg.production.convert_onnx is set; it finishes normally whatever the export
\* does, leaving the checkpoint and its copy in place.
C15_TrainCommandSteps ==
    cmd_pc = "done" =>
        /\ cmd_raised = ""
        /\ cmd_steps = StepsInOrder
        /\ best_model_source \in cmd_files => best_model_dest \in cmd_files

====
